---- MODULE Spec2Model ----
(***************************************************************************)
(* The dispatch loop of App::run (src/src/app.rs) driving the Selection    *)
(* Lists (ScrollList, src/src/components/scroll_list.rs) of its Screens.   *)
(*                                                                         *)
(* One Screen per Mode; each Screen holds one ScrollList.  The Components  *)
(* that turn SelectCurrent / SelectAllAfter / SelectAllInDirectory into    *)
(* SelectScripts / AppendScripts are not among the source files: PeerEmit  *)
(* stands for them and may answer with any payload.  The terminal driver   *)
(* (tui) and the widget layer are outside the source files as well: the    *)
(* driver's calls are taken to succeed, and a draw pass to leave the       *)
(* selected row of a list as it is (ScrollList::draw returns Ok always).   *)
(*                                                                         *)
(* A step of the model is one pass of the loop body's parts: the intake of *)
(* one event, one turn of the drain (one action through the loop-global    *)
(* effects, update and update_background), or the branch after the drain.  *)
(***************************************************************************)
EXTENDS Integers, Sequences, FiniteSets, TLC

(* ------------------------------ bounds --------------------------------- *)

\* Entries are 1..NumEntries, ordered as the integers are.
NumEntries == 2

\* Longest payload of SelectScripts / AppendScripts.
MaxPayload == 2

\* Longest list the peers are let to build (guard of DrainStep): the code sets
\* no limit.
MaxLen == 3

\* Cap on the cursor walking over an empty list in a build without overflow
\* checks (guard of NextEvent): the walk itself has no end in the code.
MaxCursor == 1

(* ------------------------------ values --------------------------------- *)

Mode == {"FileChooser", "ScriptRunner"}

Entry == 1..NumEntries

\* Entry's Ord: a total order.
EntryLess(a, b) == a < b

Payloads == UNION {[1..n -> Entry] : n \in 0..MaxPayload}

\* ListState::selected() is an Option<usize>: NoSel is None.
NoSel == -1

\* usize::MAX, the value of entries_len - 1 for entries_len = 0 in a build
\* without overflow checks.  The largest integer TLC has stands for 2^64 - 1:
\* all that matters is that it is above every index a list can hold.
UsizeMax == 2147483647

Act(t) == [type |-> t, mode |-> "", scripts |-> <<>>, entry |-> 0, w |-> 0, h |-> 0]

SwitchModeAct(m) == [Act("SwitchMode") EXCEPT !.mode = m]

ResizeAct(w, h) == [Act("Resize") EXCEPT !.w = w, !.h = h]

SelectScriptsAct(l) == [Act("SelectScripts") EXCEPT !.scripts = l]

AppendScriptsAct(l) == [Act("AppendScripts") EXCEPT !.scripts = l]

RemoveScriptAct(x) == [Act("RemoveScript") EXCEPT !.entry = x]

\* Action::Error(message); the one message is "Failed to draw: ...".
ErrorAct == Act("Error")

\* No action dequeued yet.
NoAction == Act("")

Ev(k) == [kind |-> k, code |-> "", ctrl |-> FALSE, mode |-> "", w |-> 0, h |-> 0]

KeyEv(c, ctl) == [Ev("Key") EXCEPT !.code = c, !.ctrl = ctl]

\* No event taken (before the first tui.next(), or tui.next() gave None).
NoEvent == Ev("")

KeyCodes ==
    {"z", "c", "q", "r", " ", "s", "S", "X", "x", "Up", "Down", "Home", "End",
     "Enter", "Backspace", "Tab", "Esc"}

\* What tui.next() can deliver.  Control is held with z, c or q, or not at all.
Events ==
    {Ev("Quit"), Ev("Tick"), Ev("Render"), Ev("Mouse")}
    \cup {[Ev("Resize") EXCEPT !.w = 80, !.h = 24]}
    \cup {[Ev("SwitchMode") EXCEPT !.mode = m] : m \in Mode}
    \cup {KeyEv(c, FALSE) : c \in KeyCodes}
    \cup {KeyEv(c, TRUE) : c \in {"z", "c", "q"}}

\* No Repository built yet.
NoRepo == [status |-> "none", root |-> <<>>, root_str |-> <<>>, path |-> <<>>]

\* No Repository method called yet.
NoOut == [op |-> "", arg |-> <<>>, result |-> "", val |-> <<>>]

\* No call before.
NoBefore == [prev |-> "", prev_arg |-> <<>>, path2 |-> <<>>, path1 |-> <<>>]

(* ------------------------------ state ---------------------------------- *)

VARIABLES
    current_screen,   \* App.current_screen
    exit,             \* App.exit
    suspend,          \* App.suspend
    queue,            \* the actions sent on action_tx and not yet received
    pc,               \* "next": at tui.next().await; "drain": in the while let;
                      \* "done": the loop was left; "panicked": a panic unwound
    e,                \* the event tui.next() gave this cycle (NoEvent between
                      \* cycles: it is a local of the loop body)
    action,           \* the action try_recv() gave last in this cycle
    entries,          \* ScrollList.entries of each Screen's list
    cursor,           \* ScrollList.state.selected() of each Screen's list
    overflow_checks,  \* whether the build panics on arithmetic overflow
    mode_at_event,    \* history: current_screen when e was taken
    drawn,            \* the Components the draw pass of this turn of the drain
                      \* drew, in order (none: no draw pass in this turn)
    draw_failed,      \* those of them whose draw returned Err
    calls,            \* history: the update and update_background calls this
                      \* turn of the drain made, Screen by Screen, in order
    repo,             \* the Repository: what Repository::new gave, and its fields
    out,              \* what the last Repository method called returned
    before            \* history: the call before the last, and the navigation
                      \* stack before each of the last two calls

\* The variables of the Repository; the dispatch loop does not touch them.
repo_vars == <<repo, out, before>>

\* The variables of the dispatch loop and its lists.
app_vars ==
    <<current_screen, exit, suspend, queue, pc, e, action, entries, cursor,
      overflow_checks, mode_at_event, drawn, draw_failed, calls>>

vars ==
    <<current_screen, exit, suspend, queue, pc, e, action, entries, cursor,
      overflow_checks, mode_at_event, drawn, draw_failed, calls, repo, out,
      before>>

(* --------------------- ScrollList: pure helpers ------------------------ *)

RECURSIVE InsertSorted(_, _)
\* One step of a stable sort: x goes after the elements not greater than it.
InsertSorted(x, s) ==
    IF s = <<>> THEN <<x>>
    ELSE IF EntryLess(x, Head(s)) THEN <<x>> \o s
    ELSE <<Head(s)>> \o InsertSorted(x, Tail(s))

RECURSIVE Sort(_)
\* Vec::sort: a stable sort, here by insertion from the left.
Sort(s) ==
    IF s = <<>> THEN <<>>
    ELSE InsertSorted(s[Len(s)], Sort(SubSeq(s, 1, Len(s) - 1)))

\* Vec::contains
Contains(s, x) == \E i \in 1..Len(s) : s[i] = x

\* entries_len - 1 on usize in a build without overflow checks: it wraps.
LenMinusOne(entries_len) == IF entries_len = 0 THEN UsizeMax ELSE entries_len - 1

(* --------------------- ScrollList: the cursor --------------------------- *)

cursor_up(cur) == IF cur # NoSel /\ cur > 0 THEN cur - 1 ELSE cur

cursor_down(cur, entries_len) ==
    IF cur # NoSel /\ cur < LenMinusOne(entries_len) THEN cur + 1 ELSE cur

go_to_top(cur) == 0

go_to_bottom(cur, entries_len) == LenMinusOne(entries_len)

\* entries_len - 1 is computed, with entries_len = 0, in a build that checks
\* overflow: the subtraction panics.  cursor_down subtracts only when a row is
\* selected; go_to_bottom always.
update_panics(cur, entries_len, a, oc) ==
    /\ oc
    /\ entries_len = 0
    /\ \/ a.type = "CursorDown" /\ cur # NoSel
       \/ a.type = "CursorToBottom"

\* ScrollList::update, its effect on state.selected()
update_cursor(cur, entries_len, a) ==
    CASE a.type = "CursorUp" -> cursor_up(cur)
      [] a.type = "CursorDown" -> cursor_down(cur, entries_len)
      [] a.type = "CursorToTop" -> go_to_top(cur)
      [] a.type = "CursorToBottom" -> go_to_bottom(cur, entries_len)
      [] OTHER -> cur

\* Mutant of update_emit: the entry sent is the first one, wherever the
\* cursor is.
update_emit_first(ents, cur, a) ==
    IF a.type = "RemoveSelectedScript" /\ cur # NoSel /\ cur < Len(ents)
    THEN <<RemoveScriptAct(ents[1])>>
    ELSE <<>>

\* ScrollList::update, the action it returns (none: the empty sequence)
update_emit(ents, cur, a) ==
    IF a.type = "RemoveSelectedScript" /\ cur # NoSel /\ cur < Len(ents)
    THEN <<RemoveScriptAct(ents[cur + 1])>>
    ELSE <<>>

(* --------------------- ScrollList: the entries -------------------------- *)

\* clear, extend, sort
SelectScripts(ents, scripts) == Sort(<<>> \o scripts)

\* The payload's elements that entries does not hold, in the payload's order.
only_new(ents, scripts) == SelectSeq(scripts, LAMBDA s : ~Contains(ents, s))

\* Mutant of AppendScripts: the payload is appended unfiltered.
AppendScripts_unfiltered(ents, scripts) == Sort(ents \o scripts)

\* Mutant of AppendScripts: the sort after the append is left out.
AppendScripts_unsorted(ents, scripts) == ents \o only_new(ents, scripts)

\* filter against entries as they are, append, sort
AppendScripts(ents, scripts) == Sort(ents \o only_new(ents, scripts))

\* retain(|e| *e != entry)
RemoveScript(ents, x) == SelectSeq(ents, LAMBDA y : y # x)

\* Mutant of ClearsEntries: the list is also emptied when the loop resumes.
ClearsEntries_resume(a) == a.type \in {"RemoveAllSelectedScripts", "Resume"}

\* The actions on which update_background clears the entries.
ClearsEntries(a) == a.type = "RemoveAllSelectedScripts"

\* ScrollList::update_background, its effect on entries (it returns no action)
update_background(ents, a) ==
    CASE a.type = "SelectScripts" -> SelectScripts(ents, a.scripts)
      [] a.type = "AppendScripts" -> AppendScripts(ents, a.scripts)
      [] a.type = "RemoveScript" -> RemoveScript(ents, a.entry)
      [] ClearsEntries(a) -> <<>>
      [] OTHER -> ents

(* --------------------- Components outside the source -------------------- *)

\* What the Components that answer the selection keys may append during one
\* drain step on action a: nothing, or one SelectScripts or AppendScripts
\* with any payload.
PeerEmit(a) ==
    IF a.type \in {"SelectCurrent", "SelectAllAfter", "SelectAllInDirectory"}
    THEN {<<>>}
         \cup {<<SelectScriptsAct(l)>> : l \in Payloads}
         \cup {<<AppendScriptsAct(l)>> : l \in Payloads}
    ELSE {<<>>}

\* Component::handle_events of a ScrollList: the trait's default, no action.
handle_events(ev) == <<>>

(* --------------------- App::run: event to action ------------------------ *)

\* Mutant of TabTarget: the Tab key always asks for ScriptRunner.
TabTarget_fixed(m) == "ScriptRunner"

\* The Mode the Tab key switches to from Mode m.
TabTarget(m) == IF m = "FileChooser" THEN "ScriptRunner" ELSE "FileChooser"

\* Mutant of QuitKey: the q arm sends what the arm for Ctrl+Z sends.
QuitKey_suspend == Act("Suspend")

\* The action the q key sends.
QuitKey == Act("Quit")

\* The match on (self.current_screen, key.code), first arm first.
KeyBinding(m, ev) ==
    CASE ev.code = "z" /\ ev.ctrl -> <<Act("Suspend")>>
      [] ev.code = "c" /\ ev.ctrl -> <<Act("Quit")>>
      [] ev.code = "q" -> <<QuitKey>>
      [] ev.code = "r" -> <<Act("ScriptRun")>>
      [] ev.code = " " -> <<Act("SelectCurrent")>>
      [] ev.code = "s" -> <<Act("SelectAllAfter")>>
      [] ev.code = "S" -> <<Act("SelectAllInDirectory")>>
      [] ev.code = "X" -> <<Act("RemoveAllSelectedScripts")>>
      [] ev.code = "x" -> <<Act("RemoveSelectedScript")>>
      [] ev.code = "Up" -> <<Act("CursorUp")>>
      [] ev.code = "Down" -> <<Act("CursorDown")>>
      [] ev.code = "Home" -> <<Act("CursorToTop")>>
      [] ev.code = "End" -> <<Act("CursorToBottom")>>
      [] ev.code = "Enter" -> <<Act("DirectoryOpenSelected")>>
      [] ev.code = "Backspace" -> <<Act("DirectoryLeave")>>
      [] ev.code = "Tab" -> <<SwitchModeAct(TabTarget(m))>>
      [] OTHER -> <<>>

\* The match on the event: the actions sent for it (none or one).
Translate(m, ev) ==
    CASE ev.kind = "Quit" -> <<Act("Quit")>>
      [] ev.kind = "Tick" -> <<Act("Tick")>>
      [] ev.kind = "Render" -> <<Act("Render")>>
      [] ev.kind = "Resize" -> <<ResizeAct(ev.w, ev.h)>>
      [] ev.kind = "SwitchMode" -> <<SwitchModeAct(ev.mode)>>
      [] ev.kind = "Key" -> KeyBinding(m, ev)
      [] OTHER -> <<>>

(* --------------------- App::run: the drain ------------------------------ *)

\* Mutant of DrainContinues: the drain stops one action short.
DrainContinues_short(q) == Len(q) > 1

\* while let Ok(action) = action_rx.try_recv(): the drain goes on while the
\* queue holds an action.
DrainContinues(q) == q # <<>>

\* The loop-global effects of a dequeued action.
ExitAfter(ex, a) == IF a.type = "Quit" THEN TRUE ELSE ex

SuspendAfter(su, a) ==
    CASE a.type = "Suspend" -> TRUE
      [] a.type = "Resume" -> FALSE
      [] OTHER -> su

ScreenAfter(m, a) == IF a.type = "SwitchMode" THEN a.mode ELSE m

\* Mutant of UpdateTargets: update goes to the Components of every Screen.
UpdateTargets_all(m) == Mode

\* The Screens whose Components get update: the one whose mode is active.
UpdateTargets(m) == {m}

\* Mutant of BackgroundTargets: update_background goes to the active Screen
\* alone, as update does.
BackgroundTargets_active(m) == {m}

\* The Screens whose Components get update_background: all of them.
BackgroundTargets(m) == Mode

\* screen.components of the active Screen, in order: a Component whose draw can
\* fail, then the list.
ScreenComponents == <<"peer", "list">>

\* The Components whose draw can return Err: ScrollList::draw returns Ok.
CanFailDraw == {"peer"}

\* The actions whose loop-global effect is a draw pass.
Draws(a) == a.type \in {"Render", "Resize"}

RECURSIVE DrawPass_abort(_, _)
\* Mutant of DrawPass: the pass ends at the first Component whose draw fails.
DrawPass_abort(comps, failed) ==
    IF comps = <<>> THEN <<>>
    ELSE IF Head(comps) \in failed THEN <<Head(comps)>>
    ELSE <<Head(comps)>> \o DrawPass_abort(Tail(comps), failed)

\* The Components the closure given to tui.draw draws when the draw of those
\* in failed returns Err: the for loop goes on over all of them.
DrawPass(comps, failed) == comps

\* The Error actions the pass sends: one for each Component drawn whose draw
\* failed, in order.
DrawErrors(drew, failed) ==
    [i \in 1..Len(SelectSeq(drew, LAMBDA c : c \in failed)) |-> ErrorAct]

\* self.screens, in order.
ScreenOrder == <<"FileChooser", "ScriptRunner">>

RECURSIVE EmitsFrom(_, _, _)
\* The actions the lists of the Screens in targets return from update, the
\* Screens taken in order from the i-th on.
EmitsFrom(i, targets, a) ==
    IF i > Len(ScreenOrder) THEN <<>>
    ELSE (IF ScreenOrder[i] \in targets
          THEN update_emit(entries[ScreenOrder[i]], cursor[ScreenOrder[i]], a)
          ELSE <<>>)
         \o EmitsFrom(i + 1, targets, a)

\* Whether update of a list that gets action a panics.
UpdatePanics(targets, a) ==
    \E s \in targets :
        update_panics(cursor[s], Len(entries[s]), a, overflow_checks)

\* Mutant of DeliveryMode: update goes by the mode that was active before the
\* action's own effect.
DeliveryMode_before(was, now) == was

\* The mode by which the update pass finds its Screen: self.current_screen as
\* the match on the action has left it.
DeliveryMode(was, now) == now

RECURSIVE UpdateCalls(_, _)
\* The update calls of one turn, from Screen i of self.screens on: one for
\* each Screen in targets.
UpdateCalls(i, targets) ==
    IF i > Len(ScreenOrder) THEN <<>>
    ELSE (IF ScreenOrder[i] \in targets
          THEN <<[op |-> "update", screen |-> ScreenOrder[i]]>>
          ELSE <<>>)
         \o UpdateCalls(i + 1, targets)

RECURSIVE BackgroundCalls(_, _)
\* The update_background calls of one turn, from Screen i of self.screens on.
BackgroundCalls(i, targets) ==
    IF i > Len(ScreenOrder) THEN <<>>
    ELSE (IF ScreenOrder[i] \in targets
          THEN <<[op |-> "update_background", screen |-> ScreenOrder[i]]>>
          ELSE <<>>)
         \o BackgroundCalls(i + 1, targets)

\* The calls of one turn in the order of the two passes: the update pass,
\* then the update_background pass.
CallOrder(upd, bg) == UpdateCalls(1, upd) \o BackgroundCalls(1, bg)

\* The cap on a cursor walking where the code lets it walk without end: down
\* over an empty list up to MaxCursor, and not at all up from usize::MAX.
WalkCapped(m, ev) ==
    /\ ev.kind = "Key" /\ ev.code = "Down"
       => Len(entries[m]) > 0 \/ cursor[m] < MaxCursor
    /\ ev.kind = "Key" /\ ev.code = "Up" => cursor[m] # UsizeMax

\* The cap on what the peers send: no list grows past MaxLen on it.
FitsCap(pe) ==
    \A i \in 1..Len(pe) :
        \A s \in Mode : Len(update_background(entries[s], pe[i])) <= MaxLen

(* ------------------------------ actions -------------------------------- *)

Init ==
    /\ current_screen = "FileChooser"
    /\ exit = FALSE
    /\ suspend = FALSE
    /\ queue = <<>>
    /\ pc = "next"
    /\ e = NoEvent
    /\ action = NoAction
    /\ entries = [s \in Mode |-> <<>>]
    /\ cursor = [s \in Mode |-> 0]
    /\ overflow_checks \in BOOLEAN
    /\ mode_at_event = "FileChooser"
    /\ drawn = <<>>
    /\ draw_failed = {}
    /\ calls = <<>>
    /\ repo = NoRepo
    /\ out = NoOut
    /\ before = NoBefore

\* tui.next() gives an event: its action is sent, then every Component's
\* handle_events is asked.
NextEvent ==
    /\ pc = "next"
    /\ \E ev \in Events :
        /\ WalkCapped(current_screen, ev)
        /\ e' = ev
        /\ queue' = queue \o Translate(current_screen, ev) \o handle_events(ev)
    /\ mode_at_event' = current_screen
    /\ pc' = "drain"
    /\ UNCHANGED <<current_screen, exit, suspend, action, entries, cursor,
                   overflow_checks, drawn, draw_failed, calls>>
    /\ UNCHANGED repo_vars

\* tui.next() gives None: the loop goes on to the drain.
NextNone ==
    /\ pc = "next"
    /\ e' = NoEvent
    /\ mode_at_event' = current_screen
    /\ pc' = "drain"
    /\ UNCHANGED <<current_screen, exit, suspend, queue, action, entries,
                   cursor, overflow_checks, drawn, draw_failed, calls>>
    /\ UNCHANGED repo_vars

\* One turn of the while let: the loop-global effect, update on the active
\* Screen, update_background on every Screen; what they return is sent.
DrainStep ==
    /\ pc = "drain"
    /\ DrainContinues(queue)
    /\ LET a == Head(queue)
           m == ScreenAfter(current_screen, a)
           d == DeliveryMode(current_screen, m)
       IN  /\ ~UpdatePanics(UpdateTargets(d), a)
           /\ calls' = CallOrder(UpdateTargets(d), BackgroundTargets(m))
           /\ action' = a
           /\ exit' = ExitAfter(exit, a)
           /\ suspend' = SuspendAfter(suspend, a)
           /\ current_screen' = m
           /\ cursor' =
                [s \in Mode |->
                    IF s \in UpdateTargets(d)
                    THEN update_cursor(cursor[s], Len(entries[s]), a)
                    ELSE cursor[s]]
           /\ entries' =
                [s \in Mode |->
                    IF s \in BackgroundTargets(m)
                    THEN update_background(entries[s], a)
                    ELSE entries[s]]
           /\ \E failed \in (IF Draws(a) THEN SUBSET CanFailDraw ELSE {{}}) :
                /\ draw_failed' = failed
                /\ drawn' = (IF Draws(a) THEN DrawPass(ScreenComponents, failed)
                             ELSE <<>>)
                /\ \E pe \in PeerEmit(a) :
                    /\ FitsCap(pe)
                    /\ queue' = Tail(queue)
                                 \o DrawErrors(drawn', failed)
                                 \o EmitsFrom(1, UpdateTargets(d), a)
                                 \o pe
    /\ UNCHANGED <<pc, e, overflow_checks, mode_at_event>>
    /\ UNCHANGED repo_vars

\* One turn of the while let in which update panics: the loop-global effect
\* is done, the lists are as they were, the task unwinds.
DrainPanic ==
    /\ pc = "drain"
    /\ DrainContinues(queue)
    /\ LET a == Head(queue)
           m == ScreenAfter(current_screen, a)
           d == DeliveryMode(current_screen, m)
       IN  /\ UpdatePanics(UpdateTargets(d), a)
           /\ action' = a
           /\ exit' = ExitAfter(exit, a)
           /\ suspend' = SuspendAfter(suspend, a)
           /\ current_screen' = m
           /\ queue' = Tail(queue)
           /\ calls' = UpdateCalls(1, UpdateTargets(d))
    /\ pc' = "panicked"
    /\ drawn' = <<>>
    /\ draw_failed' = {}
    /\ UNCHANGED <<e, entries, cursor, overflow_checks, mode_at_event>>
    /\ UNCHANGED repo_vars

\* Mutant of ResumeSent: the suspend branch sends nothing.
ResumeSent_none == <<>>

\* What the suspend branch sends on the action channel.
ResumeSent == <<Act("Resume")>>

\* After the drain, self.suspend set: tui.suspend(), Resume is sent, a new Tui
\* is entered, and the loop goes back to tui.next().
BoundarySuspend ==
    /\ pc = "drain"
    /\ ~DrainContinues(queue)
    /\ suspend
    /\ queue' = queue \o ResumeSent
    /\ pc' = "next"
    /\ e' = NoEvent
    /\ action' = NoAction
    /\ mode_at_event' = current_screen
    /\ drawn' = <<>>
    /\ draw_failed' = {}
    /\ calls' = <<>>
    /\ UNCHANGED <<current_screen, exit, suspend, entries, cursor,
                   overflow_checks>>
    /\ UNCHANGED repo_vars

\* After the drain, self.suspend clear and self.exit set: tui.stop(), break.
BoundaryExit ==
    /\ pc = "drain"
    /\ ~DrainContinues(queue)
    /\ ~suspend
    /\ exit
    /\ pc' = "done"
    /\ UNCHANGED <<current_screen, exit, suspend, queue, e, action, entries,
                   cursor, overflow_checks, mode_at_event, drawn, draw_failed,
                   calls>>
    /\ UNCHANGED repo_vars

\* After the drain, neither flag set: back to tui.next().
BoundaryContinue ==
    /\ pc = "drain"
    /\ ~DrainContinues(queue)
    /\ ~suspend
    /\ ~exit
    /\ pc' = "next"
    /\ e' = NoEvent
    /\ action' = NoAction
    /\ mode_at_event' = current_screen
    /\ drawn' = <<>>
    /\ draw_failed' = {}
    /\ calls' = <<>>
    /\ UNCHANGED <<current_screen, exit, suspend, queue, entries, cursor,
                   overflow_checks>>
    /\ UNCHANGED repo_vars

Next ==
    \/ NextEvent
    \/ NextNone
    \/ DrainStep
    \/ DrainPanic
    \/ BoundarySuspend
    \/ BoundaryExit
    \/ BoundaryContinue

Spec == Init /\ [][Next]_vars

\* The loop as a running task with events arriving, as far as the suspend
\* flag needs it: while the flag is set the loop takes its next step whenever
\* it has one, and tui.next() returns when the loop waits in it.
LiveSpec == Spec /\ WF_vars(suspend /\ Next)

(* --------------------- Repository: paths as text ------------------------ *)

\* std::path::MAIN_SEPARATOR
Sep == "/"

\* A byte that is not valid UTF-8 (0xff).
InvalidByte == "?"

\* The characters of the names used, in their byte order.
Alphabet == <<".", "/", "_", "a", "b", "c", "e", "l", "m", "q", "r", "s", "t", "x", "z">>

Rank(c) == CHOOSE i \in 1..Len(Alphabet) : Alphabet[i] = c

RECURSIVE TextLess(_, _)
\* str's Ord: byte by byte, a proper prefix first.
TextLess(a, b) ==
    IF b = <<>> THEN FALSE
    ELSE IF a = <<>> THEN TRUE
    ELSE IF a[1] = b[1] THEN TextLess(Tail(a), Tail(b))
    ELSE Rank(a[1]) < Rank(b[1])

\* Path::to_str gives Some: every byte of the path is valid UTF-8.
IsUTF8(t) == \A i \in 1..Len(t) : t[i] # InvalidByte

\* Path::is_absolute
IsAbsolute(t) == t # <<>> /\ t[1] = Sep

\* PathBuf::join: an absolute item replaces the path, any other is appended
\* after a separator.
join(acc, item) ==
    IF IsAbsolute(item) THEN item
    ELSE IF acc = <<>> \/ acc[Len(acc)] = Sep THEN acc \o item
    ELSE acc \o <<Sep>> \o item

RECURSIVE SplitFrom(_, _, _)
\* The pieces of t from index i on between separators, cur being the piece
\* begun; empty pieces are dropped.
SplitFrom(t, i, cur) ==
    IF i > Len(t) THEN (IF cur = <<>> THEN <<>> ELSE <<cur>>)
    ELSE IF t[i] = Sep
         THEN (IF cur = <<>> THEN <<>> ELSE <<cur>>) \o SplitFrom(t, i + 1, <<>>)
         ELSE SplitFrom(t, i + 1, Append(cur, t[i]))

\* Path::components without the root: the names between separators, "." ones
\* dropped.
Components(t) == SelectSeq(SplitFrom(t, 1, <<>>), LAMBDA c : c # <<".">>)

RECURSIVE ReplaceAll(_, _)
\* str::replace(pat, ""): t without the occurrences of pat, left to right.
ReplaceAll(t, pat) ==
    IF pat = <<>> \/ Len(t) < Len(pat) THEN t
    ELSE IF SubSeq(t, 1, Len(pat)) = pat
         THEN ReplaceAll(SubSeq(t, Len(pat) + 1, Len(t)), pat)
         ELSE <<t[1]>> \o ReplaceAll(Tail(t), pat)

RECURSIVE trim_start_matches(_, _)
\* str::trim_start_matches(c)
trim_start_matches(t, c) ==
    IF t # <<>> /\ t[1] = c THEN trim_start_matches(Tail(t), c) ELSE t

\* str::starts_with(c)
starts_with(t, c) == t # <<>> /\ t[1] = c

\* Path::extension() == Some(ext): what follows the last "." of the file
\* name, when that "." is not its first character.
HasExtension(name, ext) ==
    \E i \in 2..Len(name) :
        /\ name[i] = "."
        /\ \A j \in (i + 1)..Len(name) : name[j] # "."
        /\ SubSeq(name, i + 1, Len(name)) = ext

\* The recognized script extension.
SqlExt == <<"s", "q", "l">>

(* --------------------- Repository: the filesystem ----------------------- *)

\* The names of the tree the Repository is run on.
NameR == <<"r">>
NameS == <<"s">>
NameL == <<"l">>
NameE == <<"e">>
NameM == <<"m">>
NameDotDot == <<".", ".">>
FileA == <<"a", ".", "s", "q", "l">>
FileB == <<"b", ".", "s", "q", "l">>
FileC == <<"c", ".", "s", "q", "l">>
FileX == <<"x", ".", "s", "q", "l">>
FileZ == <<"z", ".", "s", "q", "l">>
FileHidden == <<"_", "c", ".", "s", "q", "l">>
FileTxt == <<"t", ".", "t", "x", "t">>

\* The directories of the tree, each as the names from / down to it:
\* /, /r, /r/s, /r/l, /e.
Dirs == {<<>>, <<NameR>>, <<NameR, NameS>>, <<NameR, NameL>>, <<NameE>>}

\* The directories that can be neither listed nor searched (permission denied).
Locked == {<<NameR, NameL>>}

\* What read_dir yields for a directory, in the order the system gives, which
\* is not sorted.
Listing(d) ==
    CASE d = <<>> -> <<NameR, NameE>>
      [] d = <<NameR>> -> <<FileB, NameS, FileHidden, FileA, FileTxt, NameL>>
      [] d = <<NameR, NameS>> -> <<FileC>>
      [] d = <<NameR, NameL>> -> <<FileX>>
      [] d = <<NameE>> -> <<FileX>>
      [] OTHER -> <<>>

InListing(d, n) == \E i \in 1..Len(Listing(d)) : Listing(d)[i] = n

\* The directory above d; / is above itself.
Parent(d) == IF d = <<>> THEN <<>> ELSE SubSeq(d, 1, Len(d) - 1)

RECURSIVE Walk(_, _)
\* Path resolution by the system, from directory or file at along comps: where
\* it ends, or the error it stops with.
Walk(at, comps) ==
    IF comps = <<>> THEN [err |-> "", at |-> at]
    ELSE IF at \notin Dirs THEN [err |-> "ENOTDIR", at |-> at]
    ELSE IF at \in Locked THEN [err |-> "EACCES", at |-> at]
    ELSE IF Head(comps) = NameDotDot THEN Walk(Parent(at), Tail(comps))
    ELSE IF InListing(at, Head(comps))
         THEN Walk(Append(at, Head(comps)), Tail(comps))
         ELSE [err |-> "ENOENT", at |-> at]

\* Resolution of the path with text t; the working directory is /.
Resolve(t) == Walk(<<>>, Components(t))

\* Mutant of try_exists: every error is taken as "not there", as Path::exists
\* does.
try_exists_quiet(t) == [ok |-> TRUE, val |-> Resolve(t).err = ""]

\* Path::try_exists: Ok(true), Ok(false) when the system says not found, Err
\* on any other error.
try_exists(t) ==
    LET w == Resolve(t)
    IN  IF w.err = "" THEN [ok |-> TRUE, val |-> TRUE]
        ELSE IF w.err = "ENOENT" THEN [ok |-> TRUE, val |-> FALSE]
        ELSE [ok |-> FALSE, val |-> FALSE]

\* Path::is_dir
is_dir(t) == LET w == Resolve(t) IN w.err = "" /\ w.at \in Dirs

\* std::fs::read_dir: the names of the directory in the system's order, or Err.
read_dir(t) ==
    LET w == Resolve(t)
    IN  IF w.err = "" /\ w.at \in Dirs /\ w.at \notin Locked
        THEN [ok |-> TRUE, names |-> Listing(w.at)]
        ELSE [ok |-> FALSE, names |-> <<>>]

(* --------------------- Repository: its methods -------------------------- *)

\* The deepest navigation stack explored.
MaxDepth == 2

\* The paths Repository::new is called with: /r, /r/s, /m (not there),
\* /r/l/x (below the locked directory) and one that is not UTF-8.
RootInputs ==
    {<<Sep>> \o NameR,
     <<Sep>> \o NameR \o <<Sep>> \o NameS,
     <<Sep>> \o NameM,
     <<Sep>> \o NameR \o <<Sep>> \o NameL \o <<Sep>> \o FileX,
     <<Sep, InvalidByte>>}

\* The names open_directory is called with: a subdirectory, a name that is
\* not there, the locked directory, the parent, and an absolute path.
DirNames == {NameS, NameM, NameL, NameDotDot, <<Sep>> \o NameE}

\* The markers read_files_after_in_directory is called with.
Markers == {FileA, FileB, FileC, FileZ}

\* A Repository that could not be built.
ErrRepo(kind) == [status |-> kind, root |-> <<>>, root_str |-> <<>>, path |-> <<>>]

\* Repository::new
Repository_new(root) ==
    IF ~IsUTF8(root) THEN ErrRepo("NotUTF8")
    ELSE LET ex == try_exists(root)
         IN  IF ~ex.ok THEN ErrRepo("IOError")
             ELSE IF ex.val
                  THEN [status |-> "ok", root |-> root, root_str |-> root,
                        path |-> <<>>]
                  ELSE ErrRepo("DoesNotExist")

\* Repository::base_as_str
base_as_str(r) == r.root_str

RECURSIVE JoinAll(_, _)
\* fold(root, |acc, item| acc.join(item))
JoinAll(acc, items) ==
    IF items = <<>> THEN acc ELSE JoinAll(join(acc, Head(items)), Tail(items))

\* Repository::current_as_path_buf
current_as_path_buf(r) == JoinAll(r.root, r.path)

\* Mutant of open_directory: a name that is not a directory below the current
\* one is not pushed.
open_directory_checked(path, cur, name) ==
    IF is_dir(join(cur, name)) THEN Append(path, name) ELSE path

\* Repository::open_directory, its effect on self.path (cur: the current
\* directory, which the method does not look at).
open_directory(path, cur, name) == Append(path, name)

\* Repository::leave_directory, its effect on self.path: Vec::pop.
leave_directory(path) ==
    IF path = <<>> THEN <<>> ELSE SubSeq(path, 1, Len(path) - 1)

\* The relative path the listings give for the entry at path_str.
RelativePath(path_str, base) ==
    trim_start_matches(ReplaceAll(path_str, base), Sep)

\* The filter of both read_files methods.
IsScriptFile(cur, name) ==
    /\ ~starts_with(name, "_")
    /\ ~starts_with(name, ".")
    /\ ~is_dir(join(cur, name))
    /\ HasExtension(name, SqlExt)

\* The (relative path, file name) pairs of the script files among names, in
\* the order of names.
ScriptPairs(r, names) ==
    LET cur == current_as_path_buf(r)
        kept == SelectSeq(names, LAMBDA n : IsScriptFile(cur, n))
    IN  [i \in 1..Len(kept) |->
            [rel |-> RelativePath(join(cur, kept[i]), r.root), name |-> kept[i]]]

\* Repository::read_files_in_directory: Err when read_dir fails.
read_files_in_directory(r) ==
    LET rd == read_dir(current_as_path_buf(r))
        pairs == ScriptPairs(r, rd.names)
    IN  IF ~rd.ok THEN [result |-> "err", val |-> <<>>]
        ELSE [result |-> "ok", val |-> [i \in 1..Len(pairs) |-> pairs[i].rel]]

RECURSIVE skip_while_not(_, _)
\* Iterator::skip_while(|path| path.1 != from): from the first pair named
\* from on, that pair included.
skip_while_not(pairs, from) ==
    IF pairs = <<>> THEN <<>>
    ELSE IF Head(pairs).name # from THEN skip_while_not(Tail(pairs), from)
    ELSE pairs

\* Repository::read_files_after_in_directory: Err when read_dir fails.
read_files_after_in_directory(r, from) ==
    LET rd == read_dir(current_as_path_buf(r))
        pairs == skip_while_not(ScriptPairs(r, rd.names), from)
    IN  IF ~rd.ok THEN [result |-> "err", val |-> <<>>]
        ELSE [result |-> "ok", val |-> [i \in 1..Len(pairs) |-> pairs[i].rel]]

\* ListEntry's order: by (is_directory, relative_path).
ListEntryLess(x, y) ==
    \/ ~x.is_directory /\ y.is_directory
    \/ x.is_directory = y.is_directory /\ TextLess(x.relative_path, y.relative_path)

RECURSIVE InsertEntry(_, _)
InsertEntry(x, s) ==
    IF s = <<>> THEN <<x>>
    ELSE IF ListEntryLess(x, Head(s)) THEN <<x>> \o s
    ELSE <<Head(s)>> \o InsertEntry(x, Tail(s))

RECURSIVE SortEntries(_)
\* entries.sort()
SortEntries(s) ==
    IF s = <<>> THEN <<>> ELSE InsertEntry(Head(s), SortEntries(Tail(s)))

\* Repository::read_entries_in_current_directory: the empty list when
\* read_dir fails.
read_entries_in_current_directory(r) ==
    LET cur == current_as_path_buf(r)
        rd == read_dir(cur)
        kept == SelectSeq(rd.names,
                          LAMBDA n : /\ ~starts_with(n, "_")
                                     /\ ~starts_with(n, ".")
                                     /\ \/ is_dir(join(cur, n))
                                        \/ HasExtension(n, SqlExt))
    IN  IF ~rd.ok THEN <<>>
        ELSE SortEntries(
                 [i \in 1..Len(kept) |->
                     [is_directory |-> is_dir(join(cur, kept[i])),
                      relative_path |-> RelativePath(join(cur, kept[i]), r.root),
                      name |-> kept[i],
                      selected |-> FALSE]])

(* --------------------- Repository: actions ------------------------------ *)

\* What a call leaves in the history: the call before it, and the stacks
\* before that call and before this one.
Shift(b, path) ==
    [prev |-> out.op, prev_arg |-> out.arg, path2 |-> b.path1, path1 |-> path]

New ==
    /\ repo.status = "none"
    /\ \E p \in RootInputs :
        /\ repo' = Repository_new(p)
        /\ out' = [op |-> "new", arg |-> p,
                   result |-> (IF repo'.status = "ok" THEN "ok" ELSE "err"),
                   val |-> <<>>]
    /\ before' = Shift(before, <<>>)
    /\ UNCHANGED app_vars

OpenDirectory ==
    /\ repo.status = "ok"
    /\ Len(repo.path) < MaxDepth
    /\ \E name \in DirNames :
        /\ repo' = [repo EXCEPT
                       !.path = open_directory(repo.path,
                                               current_as_path_buf(repo), name)]
        /\ out' = [op |-> "open_directory", arg |-> name, result |-> "ok",
                   val |-> <<>>]
    /\ before' = Shift(before, repo.path)
    /\ UNCHANGED app_vars

LeaveDirectory ==
    /\ repo.status = "ok"
    /\ repo' = [repo EXCEPT !.path = leave_directory(repo.path)]
    /\ out' = [op |-> "leave_directory", arg |-> <<>>, result |-> "ok",
               val |-> IF repo.path = <<>> THEN <<>>
                       ELSE <<repo.path[Len(repo.path)]>>]
    /\ before' = Shift(before, repo.path)
    /\ UNCHANGED app_vars

ReadFiles ==
    /\ repo.status = "ok"
    /\ LET res == read_files_in_directory(repo)
       IN  out' = [op |-> "read_files_in_directory", arg |-> <<>>,
                   result |-> res.result, val |-> res.val]
    /\ before' = Shift(before, repo.path)
    /\ UNCHANGED <<repo>>
    /\ UNCHANGED app_vars

ReadFilesAfter ==
    /\ repo.status = "ok"
    /\ \E from \in Markers :
        LET res == read_files_after_in_directory(repo, from)
        IN  out' = [op |-> "read_files_after_in_directory", arg |-> from,
                    result |-> res.result, val |-> res.val]
    /\ before' = Shift(before, repo.path)
    /\ UNCHANGED <<repo>>
    /\ UNCHANGED app_vars

ReadEntries ==
    /\ repo.status = "ok"
    /\ out' = [op |-> "read_entries_in_current_directory", arg |-> <<>>,
               result |-> "ok", val |-> read_entries_in_current_directory(repo)]
    /\ before' = Shift(before, repo.path)
    /\ UNCHANGED <<repo>>
    /\ UNCHANGED app_vars

RepoNext ==
    \/ New
    \/ OpenDirectory
    \/ LeaveDirectory
    \/ ReadFiles
    \/ ReadFilesAfter
    \/ ReadEntries

\* The Repository alone, called in any order; the dispatch loop stands still.
RepoSpec == Init /\ [][RepoNext]_vars

(* ------------------------------ claims --------------------------------- *)

IsQKey(ev) == ev.kind = "Key" /\ ev.code = "q"

IsTabKey(ev) == ev.kind = "Key" /\ ev.code = "Tab"

\* The drain of the cycle is over: the loop is at its cycle boundary.
AtBoundary == pc = "drain" /\ queue = <<>>

IsSorted(s) == \A i \in 1..(Len(s) - 1) : ~EntryLess(s[i + 1], s[i])

Count(s, x) == Cardinality({i \in 1..Len(s) : s[i] = x})

SameElements(s, t) == \A x \in Entry : Count(s, x) = Count(t, x)

\* C1, as claimed: whenever the loop waits at tui.next(), the action queue is
\* empty.
C1_QueueEmptyAtWait == pc = "next" => queue = <<>>

\* C1, amended: whenever the loop waits at tui.next(), the action queue is
\* empty, or the suspend flag is set and the queue holds exactly the one
\* Resume the loop sent at the boundary of the cycle before.
C1_QueueAtWait ==
    pc = "next" => \/ queue = <<>>
                   \/ suspend /\ queue = <<Act("Resume")>>

\* The loop waits with the Resume queued, after cycles in which Components
\* sent actions of their own.
C1_Witness ==
    /\ pc = "next"
    /\ queue = <<Act("Resume")>>
    /\ entries["FileChooser"] # <<>>

\* C2: in a cycle whose event is the q key, no step panics, and at the cycle
\* boundary the exit flag is set and the loop is left there, in either Mode,
\* not going back to tui.next().
C2_QuitTerminates ==
    /\ [](IsQKey(e) => pc \in {"drain", "done"})
    /\ [][(AtBoundary /\ IsQKey(e)) => (exit /\ pc' = "done")]_vars

\* The loop has been left on a q key in ScriptRunner mode, the lists holding
\* entries.
C2_Witness ==
    /\ pc = "done"
    /\ IsQKey(e)
    /\ current_screen = "ScriptRunner"
    /\ action.type = "Quit"
    /\ entries["ScriptRunner"] # <<>>

\* C3: at the boundary of a cycle whose event is the Tab key, the active Mode
\* is the other one than the Mode the cycle began in.
C3_TabToggles ==
    (AtBoundary /\ IsTabKey(e)) => current_screen # mode_at_event

\* A Tab cycle that went from ScriptRunner back to FileChooser.
C3_Witness ==
    /\ AtBoundary
    /\ IsTabKey(e)
    /\ mode_at_event = "ScriptRunner"
    /\ current_screen = "FileChooser"

\* C4: from the step that processes Suspend to the step that processes the
\* Resume the loop sent (all the steps that start or end with the suspend flag
\* set: the driver's release and the new session among them), no step changes
\* the entries of any Selection List.
C4_SuspendKeepsEntries == [][(suspend \/ suspend') => entries' = entries]_vars

\* The Resume of a suspension has just been processed, the lists holding
\* entries.
C4_Witness ==
    /\ action.type = "Resume"
    /\ ~suspend
    /\ \A s \in Mode : Len(entries[s]) > 1

\* C5: the cursor of every Selection List is undefined when its entries are
\* empty and an index of the entries otherwise.
C5_CursorInRange ==
    \A s \in Mode :
        IF entries[s] = <<>>
        THEN cursor[s] = NoSel
        ELSE cursor[s] \in 0..(Len(entries[s]) - 1)

\* C6: on the active Screen's list of length L, CursorDown moves the cursor by
\* at most one and not to an index above L-1, CursorUp moves it by at most one
\* and not below 0, and CursorToBottom on a non-empty list sets it to L-1.
C6_CursorClamped ==
    [][(pc = "drain" /\ queue # <<>> /\ pc' = "drain") =>
        LET a == Head(queue)
            s == current_screen
            L == Len(entries[s])
        IN  /\ a.type = "CursorDown" =>
                /\ cursor'[s] - cursor[s] \in {0, 1}
                /\ cursor'[s] # cursor[s] => cursor'[s] <= L - 1
            /\ a.type = "CursorUp" =>
                /\ cursor[s] - cursor'[s] \in {0, 1}
                /\ cursor'[s] >= 0
            /\ (a.type = "CursorToBottom" /\ L > 0) => cursor'[s] = L - 1]_vars

\* C7: the entries of a Selection List hold no two equal elements.
C7_NoDuplicates ==
    \A s \in Mode :
        \A i, j \in 1..Len(entries[s]) : i # j => entries[s][i] # entries[s][j]

\* C8: the entries of every Selection List are sorted, and right after
\* SelectScripts(list) they are the elements of list, each as often as list
\* holds it.
C8_Sorted ==
    /\ \A s \in Mode : IsSorted(entries[s])
    /\ action.type = "SelectScripts" =>
           \A s \in Mode : SameElements(entries[s], action.scripts)

\* SelectScripts with a payload out of order has just been processed.
C8_Witness ==
    /\ action = SelectScriptsAct(<<2, 1>>)
    /\ entries["FileChooser"] = <<1, 2>>

\* C9: right after AppendScripts with a payload has been processed, applying
\* it again with the same payload leaves the entries of every Selection List
\* as they are; and on the entries the lists hold between cycles, AppendScripts
\* with any payload applied twice gives what applying it once gives.
C9_AppendIdempotent ==
    /\ action.type = "AppendScripts" =>
           \A s \in Mode : AppendScripts(entries[s], action.scripts) = entries[s]
    /\ pc = "next" =>
           \A s \in Mode :
               \A l \in Payloads :
                   AppendScripts(AppendScripts(entries[s], l), l)
                       = AppendScripts(entries[s], l)

\* AppendScripts has just added the new element of a payload to a list that
\* held the other one already.
C9_Witness ==
    /\ action = AppendScriptsAct(<<2, 1>>)
    /\ entries["FileChooser"] = <<1, 1, 2>>

\* C10: the lists of all Screens, active or not, hold the same entries: each
\* got every entry-mutating action.
C10_InactiveInStep == \A s, t \in Mode : entries[s] = entries[t]

\* AppendScripts has just been processed in ScriptRunner mode, and the list
\* of the FileChooser Screen holds its payload.
C10_Witness ==
    /\ current_screen = "ScriptRunner"
    /\ action = AppendScriptsAct(<<2, 1>>)
    /\ entries["FileChooser"] = <<1, 2>>

\* The queue holds no Error action.
NoErrorQueued == \A i \in 1..Len(queue) : queue[i].type # "Error"

\* C11: a turn of the drain that takes Render or Resize does not end the loop,
\* whichever draws fail: every Component of the active Screen is drawn, one
\* Error action is appended to the queue for each draw that failed, and the
\* drain goes on. An Error action at the head of the queue is taken by the
\* next turn like any other, changes no list and ends nothing, and none is
\* left in the queue when the loop waits for the next event.
C11_DrawFailureRequeued ==
    /\ [](pc = "next" => NoErrorQueued)
    /\ [][(pc = "drain" /\ queue # <<>> /\ Draws(Head(queue))) =>
             /\ pc' = "drain"
             /\ action' = Head(queue)
             /\ drawn' = ScreenComponents
             /\ queue' = Tail(queue)
                          \o [i \in 1..Cardinality(draw_failed') |-> ErrorAct]]_vars
    /\ [][(pc = "drain" /\ queue # <<>> /\ Head(queue) = ErrorAct) =>
             /\ pc' = "drain"
             /\ action' = ErrorAct
             /\ queue' = Tail(queue)
             /\ UNCHANGED <<exit, suspend, current_screen, entries, cursor>>]_vars

\* The draw of the first Component failed during a Render pass: the list after
\* it was drawn all the same, and the Error action is at the head of the queue,
\* the loop still draining.
C11_Witness ==
    /\ pc = "drain"
    /\ action.type = "Render"
    /\ draw_failed = {"peer"}
    /\ drawn = <<"peer", "list">>
    /\ queue = <<ErrorAct>>

RECURSIVE RemoveFirst(_, _)
\* ents without its first element equal to x; ents when it has none.
RemoveFirst(ents, x) ==
    IF ents = <<>> THEN <<>>
    ELSE IF Head(ents) = x THEN Tail(ents)
    ELSE <<Head(ents)>> \o RemoveFirst(Tail(ents), x)

\* A turn of the drain that takes t and does not panic.
Takes(t) == pc = "drain" /\ queue # <<>> /\ Head(queue).type = t /\ pc' = "drain"

\* C16: a turn of the drain that takes RemoveScript(entry) removes from every
\* list the first element equal to entry and no other: the length goes down
\* by one when there is such an element and the rest keep their order.
C16_RemovesFirstOnly ==
    [][Takes("RemoveScript") =>
          \A s \in Mode :
              entries'[s] = RemoveFirst(entries[s], Head(queue).entry)]_vars

IsXKey(ev) == ev.kind = "Key" /\ ev.code = "x" /\ ~ev.ctrl

UpdateActions ==
    {"CursorUp", "CursorDown", "CursorToTop", "CursorToBottom",
     "RemoveSelectedScript"}

\* C18: a turn of the drain that takes one of the actions ScrollList::update
\* acts on leaves the cursor of the list of every Screen that is not the
\* active one as it was, and what it sends is what the active Screen's list
\* returns: the list of an inactive Screen sends no RemoveScript.
C18_UpdateOnlyActive ==
    [][(pc = "drain" /\ queue # <<>> /\ Head(queue).type \in UpdateActions) =>
          /\ \A s \in Mode \ {current_screen} : cursor'[s] = cursor[s]
          /\ pc' = "drain" =>
                queue' = Tail(queue)
                         \o update_emit(entries[current_screen],
                                        cursor[current_screen], Head(queue))]_vars

\* CursorDown has moved the cursor of the active Screen's list, which holds
\* two entries as the other list does, and the other list's cursor is where
\* it was.
C18_Witness ==
    /\ action.type = "CursorDown"
    /\ current_screen = "FileChooser"
    /\ cursor["FileChooser"] = 1
    /\ cursor["ScriptRunner"] = 0
    /\ Len(entries["ScriptRunner"]) = 2

\* C19: at the end of a drain with the suspend flag set the loop does not end:
\* its next step takes it back to waiting for an event, with exactly one
\* Resume appended to the (empty) queue and both flags as they were; and,
\* the loop running and events arriving, the suspend flag set is followed by
\* the suspend flag clear.
C19_SuspendResumes ==
    /\ [][(AtBoundary /\ suspend) =>
             /\ pc' = "next"
             /\ queue' = <<Act("Resume")>>
             /\ UNCHANGED <<suspend, exit, current_screen, entries, cursor>>]_vars
    /\ [](pc = "done" => ~suspend)
    /\ (suspend ~> ~suspend)

\* The loop has gone through the suspend branch: it waits for an event with
\* the suspend flag still set and the Resume it sent in the queue.
C19_Witness ==
    /\ pc = "next"
    /\ suspend
    /\ queue = <<Act("Resume")>>

\* C12, as claimed: Repository::new on a path that is not UTF-8 fails with
\* NotUTF8; on any other path that does not lead to an existing file or
\* directory it fails with DoesNotExist; on every other path it gives a
\* Repository with an empty navigation stack whose base_as_str is the path.
C12_NewAsClaimed ==
    out.op = "new" =>
        IF ~IsUTF8(out.arg) THEN repo.status = "NotUTF8"
        ELSE IF Resolve(out.arg).err # "" THEN repo.status = "DoesNotExist"
        ELSE /\ repo.status = "ok"
             /\ repo.path = <<>>
             /\ base_as_str(repo) = out.arg

\* C12, amended: Repository::new on a path that is not UTF-8 fails with
\* NotUTF8; on any other path whose existence the system cannot tell (an
\* error other than "not found") it fails with IOError; on any other path
\* that is not found it fails with DoesNotExist; on every other path it gives
\* a Repository with an empty navigation stack whose base_as_str is the path.
C12_NewOutcome ==
    out.op = "new" =>
        IF ~IsUTF8(out.arg) THEN repo.status = "NotUTF8"
        ELSE IF Resolve(out.arg).err \notin {"", "ENOENT"}
             THEN repo.status = "IOError"
        ELSE IF Resolve(out.arg).err = "ENOENT" THEN repo.status = "DoesNotExist"
        ELSE /\ repo.status = "ok"
             /\ repo.path = <<>>
             /\ base_as_str(repo) = out.arg

\* Repository::new has been called with a path below the locked directory,
\* and failed with IOError.
C12_Witness ==
    /\ out.op = "new"
    /\ IsUTF8(out.arg)
    /\ Resolve(out.arg).err = "EACCES"
    /\ repo.status = "IOError"

\* C13: after open_directory(name) and then leave_directory(), the navigation
\* stack, the current directory and what read_entries_in_current_directory
\* returns are what they were before the two calls, whatever the name.
C13_RoundTrip ==
    (out.op = "leave_directory" /\ before.prev = "open_directory") =>
        LET was == [repo EXCEPT !.path = before.path2]
        IN  /\ repo.path = before.path2
            /\ current_as_path_buf(repo) = current_as_path_buf(was)
            /\ read_entries_in_current_directory(repo)
                   = read_entries_in_current_directory(was)

\* From /r/s, open_directory of a name that is not there and then
\* leave_directory: the stack is back at s, whose one entry is listed.
C13_Witness ==
    /\ out.op = "leave_directory"
    /\ before.prev = "open_directory"
    /\ before.prev_arg = NameM
    /\ repo.root = <<Sep>> \o NameR
    /\ repo.path = <<NameS>>
    /\ Len(read_entries_in_current_directory(repo)) = 1

RECURSIVE Lexical(_, _)
\* The directory the names comps lead to from acc, ".." taken as the parent.
Lexical(acc, comps) ==
    IF comps = <<>> THEN acc
    ELSE IF Head(comps) = NameDotDot THEN Lexical(Parent(acc), Tail(comps))
    ELSE Lexical(Append(acc, Head(comps)), Tail(comps))

\* Directory d is directory r or below it.
IsWithin(d, r) == Len(r) <= Len(d) /\ SubSeq(d, 1, Len(r)) = r

\* C14: whatever open_directory and leave_directory calls were made, the
\* current directory is the root or below it; and leave_directory at the root
\* leaves the current directory at the root.
C14_Confined ==
    /\ [](repo.status = "ok" =>
             IsWithin(Lexical(<<>>, Components(current_as_path_buf(repo))),
                      Lexical(<<>>, Components(repo.root))))
    /\ [][(repo.status = "ok" /\ repo.path = <<>>
             /\ out'.op = "leave_directory") =>
             current_as_path_buf(repo)' = repo.root]_vars

\* The listing methods of the Repository.
ListingOps ==
    {"read_entries_in_current_directory", "read_files_in_directory",
     "read_files_after_in_directory"}

\* C15: a listing method called when the current directory cannot be read
\* returns an empty sequence, not an error, and leaves the navigation stack
\* as it was.
C15_ReadFailureEmpty ==
    (out.op \in ListingOps /\ ~read_dir(current_as_path_buf(repo)).ok) =>
        /\ out.result = "ok"
        /\ out.val = <<>>
        /\ repo.path = before.path1

RECURSIVE AfterMarker(_, _)
\* The pairs after the first one named marker; none when there is no such
\* pair.
AfterMarker(pairs, marker) ==
    IF pairs = <<>> THEN <<>>
    ELSE IF Head(pairs).name = marker THEN Tail(pairs)
    ELSE AfterMarker(Tail(pairs), marker)

\* C20: read_files_after_in_directory(marker), when the directory can be read,
\* returns the script files listed after the one named marker, in listing
\* order, without marker itself; nothing when no script file is named marker.
C20_AfterMarker ==
    (out.op = "read_files_after_in_directory" /\ out.result = "ok") =>
        LET pairs == AfterMarker(
                         ScriptPairs(repo, read_dir(current_as_path_buf(repo)).names),
                         out.arg)
        IN  out.val = [i \in 1..Len(pairs) |-> pairs[i].rel]

\* C21: a turn of the drain that takes CursorToBottom or CursorDown while the
\* active Screen's list is empty does not panic, so the loop goes on draining,
\* and makes up no index: the cursor of that list is left as it was, or
\* cleared.
C21_NoUnderflow ==
    [][(/\ pc = "drain"
        /\ queue # <<>>
        /\ Head(queue).type \in {"CursorToBottom", "CursorDown"}
        /\ entries[current_screen] = <<>>) =>
          /\ pc' = "drain"
          /\ cursor'[current_screen] \in {NoSel, cursor[current_screen]}]_vars

\* The most actions one dequeued action can have processed on its account:
\* itself, the RemoveScript a list returns for RemoveSelectedScript, what the
\* Components that are not lists send for it, and the Error of each draw that
\* can fail.
Weight(a) ==
    1 + (IF a.type = "RemoveSelectedScript" THEN 1 ELSE 0)
      + (IF PeerEmit(a) # {<<>>} THEN 1 ELSE 0)
      + (IF Draws(a) THEN Cardinality(CanFailDraw) ELSE 0)

RECURSIVE QueueWeight(_)
\* The most turns the drain can still take on account of the actions in q.
QueueWeight(q) == IF q = <<>> THEN 0 ELSE Weight(Head(q)) + QueueWeight(Tail(q))

\* C22: every turn of the drain goes on to the next or to the cycle boundary
\* and leaves fewer turns to take than there were; what the lists return for
\* the action taken is at most one action, a RemoveScript and only for
\* RemoveSelectedScript, and a RemoveScript taken sends nothing: the drain
\* of every cycle ends at the boundary after a bounded number of turns.
C22_DrainTerminates ==
    [][(pc = "drain" /\ queue # <<>>) =>
          LET a == Head(queue)
              em == EmitsFrom(1, UpdateTargets(ScreenAfter(current_screen, a)), a)
          IN  /\ pc' = "drain"
              /\ QueueWeight(queue') < QueueWeight(queue)
              /\ Len(em) <= 1
              /\ em # <<>> =>
                    a.type = "RemoveSelectedScript" /\ em[1].type = "RemoveScript"
              /\ a.type = "RemoveScript" => queue' = Tail(queue)]_vars

\* C23: in a turn of the drain that takes SwitchMode(m), the active mode is m
\* when the turn is done and every update call of the turn went to the Screen
\* for m, none to the Screen active before; and in every turn all update calls
\* come before all update_background calls.
C23_EffectBeforeDelivery ==
    /\ [][Takes("SwitchMode") =>
             /\ current_screen' = Head(queue).mode
             /\ \E i \in 1..Len(calls') : calls'[i].op = "update"
             /\ \A i \in 1..Len(calls') :
                    calls'[i].op = "update" => calls'[i].screen = Head(queue).mode]_vars
    /\ [](\A i, j \in 1..Len(calls) :
             (calls[i].op = "update" /\ calls[j].op = "update_background") => i < j)

\* SwitchMode(ScriptRunner) has been taken with FileChooser active: update went
\* to the ScriptRunner Screen, and then update_background to both.
C23_Witness ==
    /\ action = SwitchModeAct("ScriptRunner")
    /\ mode_at_event = "FileChooser"
    /\ current_screen = "ScriptRunner"
    /\ calls = <<[op |-> "update", screen |-> "ScriptRunner"],
                 [op |-> "update_background", screen |-> "FileChooser"],
                 [op |-> "update_background", screen |-> "ScriptRunner"]>>

====
